---- MODULE Spec2Model ----
(***************************************************************************)
(* The dialogue-tree runtime of Extensions/DialogueTree/dialoguetools.js:  *)
(* the singleton gdjs.dialogueTree, the bondage runner it drives, and the  *)
(* host timers scheduled by <<wait>> commands.                             *)
(*                                                                         *)
(* Strings are sequences of one-character strings, so that length,        *)
(* substring, concatenation and split(' ') are computed as the code does. *)
(***************************************************************************)
EXTENDS Integers, Sequences, FiniteSets, TLC

VARIABLES
  dt,        \* the fields of gdjs.dialogueTree (this.*)
  runner,    \* gdjs.dialogueTree.runner: yarnNodes, variables.data, visited
  timers,    \* pending setTimeout callbacks of isCommandCalled, in schedule order
  stateVar,  \* the gdjs.Variable handed to saveState / loadState
  call,      \* history: the last public call (or timer firing) and what it returned
  selRun,    \* history: the current run of consecutive selectNextOption calls
  optTrail,  \* history: calls made since an Options line became the current line
  fired,     \* history: ids of the commands reported by isCommandCalled on this queue
  stopped    \* history: stopRunningDialogue was called and no startFrom ran since

vars == <<dt, runner, timers, stateVar, call, selRun, optTrail, fired, stopped>>

----
(* Bounds of the model. *)

\* tick() is unbounded in the code; the model stops scrolling at MaxClip.
MaxClip == 5
\* At most this many setTimeout callbacks are pending at once.
MaxTimers == 2

----
(* Strings. *)

WAIT == <<"w", "a", "i", "t">>
FOO == <<"f", "o", "o">>
BAR == <<"b", "a", "r">>
HI == <<"H", "i">>
YO == <<"y", "o">>
OK == <<"o", "k">>
SPACE == <<" ">>

CommandNames == {WAIT, FOO, BAR}

RECURSIVE SplitFrom(_, _, _)
SplitFrom(s, cur, acc) ==
  IF s = <<>> THEN Append(acc, cur)
  ELSE IF Head(s) = " " THEN SplitFrom(Tail(s), <<>>, Append(acc, cur))
  ELSE SplitFrom(Tail(s), Append(cur, Head(s)), acc)

\* String.prototype.split(' ')
Split(s) == SplitFrom(s, <<>>, <<>>)

\* String.prototype.substring(0, end) for 0 <= end
Substring(s, end) == SubSeq(s, 1, IF end > Len(s) THEN Len(s) ELSE end)

\* Array.prototype.splice(index, 1), index counted from 0
Splice(a, index) ==
  IF index + 1 > Len(a) THEN a
  ELSE SubSeq(a, 1, index) \o SubSeq(a, index + 2, Len(a))

Range(f) == {f[i] : i \in DOMAIN f}

----
(* The interpreter (bondage.js): results, compiled nodes, the generator.   *)

TextResult(text, title) == [kind |-> "text", text |-> text, title |-> title]
CommandResult(text, id) == [kind |-> "command", text |-> text, id |-> id]
OptionsResult(options, links) ==
  [kind |-> "options", options |-> options, links |-> links]
\* null / undefined: no current node
NoData == [kind |-> "none"]

BranchNames ==
  {"Start", "YesB", "NoB", "Empty", "Tail", "Ask", "Pre", "Waits", "Mid",
   "Deep"}

\* The loaded dialogue script: for each branch, the results running it yields.
YarnNodes ==
  [b \in BranchNames |->
    CASE b = "Start" ->
           << TextResult(HI, "Start"),
              CommandResult(WAIT \o SPACE \o <<"5", "0", "0">>, "c1"),
              TextResult(YO, "Start"),
              OptionsResult(<<"Yes", "No">>, <<"YesB", "NoB">>) >>
      [] b = "YesB" -> << TextResult(OK, "YesB") >>
      [] b = "NoB" -> << CommandResult(FOO, "c2") >>
      [] b = "Empty" -> << >>
      [] b = "Tail" ->
           << TextResult(HI, "Tail"),
              CommandResult(FOO \o SPACE \o <<"a">> \o SPACE \o <<"b">>, "c3") >>
      [] b = "Ask" ->
           << OptionsResult(<<"A", "B", "C">>, <<"YesB", "NoB", "Deep">>) >>
      [] b = "Pre" ->
           << CommandResult(BAR \o SPACE \o <<"x">>, "c4"),
              TextResult(HI, "Pre"),
              TextResult(YO, "Pre") >>
      [] b = "Waits" ->
           << TextResult(HI, "Waits"),
              CommandResult(WAIT \o SPACE \o <<"9">>, "c5"),
              CommandResult(WAIT \o SPACE \o <<"1">>, "c6"),
              CommandResult(FOO, "c7"),
              TextResult(YO, "Waits") >>
      [] b = "Mid" ->
           << TextResult(HI, "Mid"),
              CommandResult(BAR, "c8"),
              OptionsResult(<<"Go">>, <<"Deep">>) >>
      [] b = "Deep" ->
           << CommandResult(BAR \o SPACE \o <<"x">>, "c9"),
              TextResult(HI, "Deep"),
              OptionsResult(<<"Yes", "No">>, <<"YesB", "NoB">>) >> ]

\* A branch name that is not in the script.
UnknownBranch == "Nope"

\* runner.run(node): a generator that has not yielded yet.
Run(node) == [rest |-> YarnNodes[node], links |-> <<>>, selected |-> -1]
NoDialogue == [rest |-> <<>>, links |-> <<>>, selected |-> -1]

\* dialogue.next(): resumes the generator. Suspended at an OptionsResult whose
\* select(i) was called, it continues with the branch of option i.
GenNext(gen) ==
  LET took == gen.links # <<>> /\ gen.selected # -1
      cont == IF took THEN YarnNodes[gen.links[gen.selected + 1]] \o gen.rest
              ELSE gen.rest
  IN IF cont = <<>>
     THEN [gen |-> NoDialogue, value |-> NoData,
           entered |-> IF took THEN gen.links[gen.selected + 1] ELSE ""]
     ELSE [gen |-> [rest |-> Tail(cont),
                    links |-> IF Head(cont).kind = "options"
                              THEN Head(cont).links ELSE <<>>,
                    selected |-> -1],
           value |-> Head(cont),
           entered |-> IF took THEN gen.links[gen.selected + 1] ELSE ""]

\* OptionsResult.select(index) throws for an index that is no option.
SelectThrows(data, index) == index < 0 \/ index >= Len(data.options)

----
(* gdjs.dialogueTree: its fields and the line-advance algorithm.           *)

\* The object before any call: every field is undefined. The fields whose
\* undefinedness a later read can observe are listed in `undefined`; the
\* others hold the value an undefined field behaves as (falsy, no node).
InitDT ==
  [ dialogueIsRunning |-> FALSE,
    dialogueData |-> NoData,
    dialogue |-> NoDialogue,
    dialogueDataType |-> "",
    dialogueText |-> <<>>,
    clipTextEnd |-> 0,
    commandCalls |-> <<>>,
    commandParameters |-> <<>>,
    pauseScrolling |-> FALSE,
    optionsCount |-> 0,
    options |-> <<>>,
    selectedOption |-> -1,
    selectedOptionUpdated |-> FALSE,
    dialogueBranchTitle |-> "",
    undefined |-> {"dialogueText", "options", "commandCalls"} ]

\* What one public call did besides changing the fields: nodes pulled from the
\* generator, the branch the generator entered, whether this.commandCalls was
\* assigned a new array, whether an Options line was presented, the index
\* handed to OptionsResult.select (-2: select was not called).
Frame(d) ==
  [dt |-> d, pulled |-> 0, entered |-> "", newQueue |-> FALSE,
   presented |-> FALSE, selected |-> -2]

\* this.dialogueData = this.dialogue.next().value
Pull(f) ==
  LET r == GenNext(f.dt.dialogue)
  IN [f EXCEPT !.dt.dialogueData = r.value,
               !.dt.dialogue = r.gen,
               !.pulled = @ + 1,
               !.entered = IF r.entered # "" THEN r.entered ELSE @]

\* goToNextDialogueLine, the Text branch before the pull (lines 456-471)
TextLine(f) ==
  LET d == f.dt
      replace == d.dialogueDataType \in {"options", "text", ""}
  IN [f EXCEPT
        !.dt.clipTextEnd = IF replace THEN 0 ELSE @,
        !.dt.dialogueText =
           IF replace THEN d.dialogueData.text ELSE @ \o d.dialogueData.text,
        !.dt.commandCalls = IF replace THEN <<>> ELSE @,
        !.dt.dialogueDataType = "text",
        !.dt.dialogueBranchTitle = d.dialogueData.title,
        !.newQueue = @ \/ replace]

\* goToNextDialogueLine, the Options branch (lines 474-477)
OptionsLine(f) ==
  [f EXCEPT !.dt.dialogueDataType = "options",
            !.dt.optionsCount = Len(f.dt.dialogueData.options),
            !.dt.options = f.dt.dialogueData.options,
            !.dt.selectedOptionUpdated = TRUE,
            !.presented = TRUE]

\* The Command branch with commandCalls = [entry] in place of the push
CommandLineReplacesQueue(f) ==
  LET d == f.dt
      command == Split(d.dialogueData.text)
  IN [f EXCEPT
        !.dt.dialogueDataType = "command",
        !.dt.commandCalls =
           <<[cmd |-> command[1], params |-> command,
              time |-> Len(d.dialogueText), id |-> d.dialogueData.id]>>]

\* goToNextDialogueLine, the Command branch before the pull (lines 479-492)
CommandLine(f) ==
  LET d == f.dt
      command == Split(d.dialogueData.text)
      offsetTime ==
        IF Len(d.commandCalls) > 0
           /\ d.commandCalls[Len(d.commandCalls)].cmd = WAIT
        THEN 1 ELSE 0
  IN [f EXCEPT
        !.dt.dialogueDataType = "command",
        !.dt.commandCalls =
           Append(@, [cmd |-> command[1], params |-> command,
                      time |-> Len(d.dialogueText) + offsetTime,
                      id |-> d.dialogueData.id])]

RECURSIVE goToNextDialogueLine(_)
goToNextDialogueLine(f) ==
  IF f.dt.pauseScrolling \/ ~f.dt.dialogueIsRunning THEN f
  ELSE
    LET f0 == [f EXCEPT !.dt.optionsCount = 0,
                        !.dt.selectedOption = -1,
                        !.dt.selectedOptionUpdated = FALSE]
        kind == f0.dt.dialogueData.kind
        f1 == CASE kind = "text" -> Pull(TextLine(f0))
                [] kind = "options" -> OptionsLine(f0)
                [] kind = "command" -> goToNextDialogueLine(Pull(CommandLine(f0)))
                [] OTHER -> [f0 EXCEPT !.dt.dialogueDataType = "unknown"]
    IN IF f1.dt.dialogueData.kind = "command"
       THEN goToNextDialogueLine([f1 EXCEPT !.dt.dialogueDataType = "command"])
       ELSE f1

hasDialogueBranch(r, branchName) == branchName \in r.yarnNodes

\* startFrom that resets the fields before it tests hasDialogueBranch
startFromResetsFirst(d, r, startDialogueNode) ==
  LET known == hasDialogueBranch(r, startDialogueNode)
      d1 == [d EXCEPT
               !.optionsCount = 0,
               !.options = <<>>,
               !.dialogueBranchTitle = "",
               !.dialogue = IF known THEN Run(startDialogueNode) ELSE @,
               !.dialogueData = NoData,
               !.dialogueDataType = "",
               !.dialogueText = <<>>,
               !.clipTextEnd = 0,
               !.commandCalls = <<>>,
               !.commandParameters = <<>>,
               !.pauseScrolling = FALSE,
               !.undefined = {}]
      f1 == Pull([Frame(d1) EXCEPT !.newQueue = TRUE])
  IN IF ~known THEN Frame(d1)
     ELSE goToNextDialogueLine([f1 EXCEPT !.dt.dialogueIsRunning = TRUE])

\* startFrom on the fields d with the runner r
startFrom(d, r, startDialogueNode) ==
  IF ~hasDialogueBranch(r, startDialogueNode) THEN Frame(d)
  ELSE
    LET d1 == [d EXCEPT
                 !.optionsCount = 0,
                 !.options = <<>>,
                 !.dialogueBranchTitle = "",
                 !.dialogue = Run(startDialogueNode),
                 !.dialogueData = NoData,
                 !.dialogueDataType = "",
                 !.dialogueText = <<>>,
                 !.clipTextEnd = 0,
                 !.commandCalls = <<>>,
                 !.commandParameters = <<>>,
                 !.pauseScrolling = FALSE,
                 !.undefined = {}]
        f1 == Pull([Frame(d1) EXCEPT !.newQueue = TRUE])
    IN goToNextDialogueLine([f1 EXCEPT !.dt.dialogueIsRunning = TRUE])

\* stopRunningDialogue that leaves the line text and the clip cursor
stopRunningDialogueKeepsLine(d) ==
  [d EXCEPT !.dialogueIsRunning = FALSE,
            !.dialogueData = NoData,
            !.undefined = @ \ {"dialogueText"}]

stopRunningDialogue(d) ==
  [d EXCEPT !.dialogueIsRunning = FALSE,
            !.dialogueData = NoData,
            !.dialogueText = <<>>,
            !.clipTextEnd = 0,
            !.undefined = @ \ {"dialogueText"}]

\* isRunning without the transition to false
isRunningNeverClears(d) == d.dialogueIsRunning

\* The value isRunning() returns, which it also stores in dialogueIsRunning.
isRunning(d) ==
  IF d.dialogueIsRunning
     /\ d.dialogueData.kind = "none"
     /\ d.dialogueText # <<>>
     /\ d.clipTextEnd >= Len(d.dialogueText)
  THEN FALSE
  ELSE d.dialogueIsRunning

\* scrollClippedText that stops one short of the end of the line
scrollClippedTextShort(d) ==
  IF d.pauseScrolling \/ ~d.dialogueIsRunning THEN d
  ELSE IF d.dialogueText # <<>> /\ d.clipTextEnd + 1 < Len(d.dialogueText)
       THEN [d EXCEPT !.clipTextEnd = @ + 1]
       ELSE d

scrollClippedText(d) ==
  IF d.pauseScrolling \/ ~d.dialogueIsRunning THEN d
  ELSE IF d.dialogueText # <<>>
       THEN [d EXCEPT !.clipTextEnd = @ + 1]
       ELSE d

completeClippedTextScrolling(d) ==
  IF d.pauseScrolling \/ ~d.dialogueIsRunning \/ d.dialogueText = <<>> THEN d
  ELSE [d EXCEPT !.clipTextEnd = Len(d.dialogueText)]

\* Reads. "TypeError" is the exception a read of a property of undefined throws.
hasClippedScrollingCompleted(d) ==
  IF d.dialogueData.kind # "none" /\ Len(d.dialogueText) > 0
  THEN d.clipTextEnd >= Len(d.dialogueText)
  ELSE FALSE

getClippedLineText(d) ==
  IF "dialogueText" \in d.undefined THEN <<"TypeError">>
  ELSE IF Len(d.dialogueText) > 0
       THEN Substring(d.dialogueText, d.clipTextEnd)
       ELSE <<>>

isDialogueLineType(d, type) ==
  IF "commandCalls" \notin d.undefined
     /\ \E i \in DOMAIN d.commandCalls :
          d.clipTextEnd > d.commandCalls[i].time /\ d.commandCalls[i].cmd = WAIT
  THEN ~d.pauseScrolling
  ELSE IF d.dialogueIsRunning THEN d.dialogueDataType = type ELSE FALSE

----
(* The command queue and the wait timers.                                  *)

\* MatchIndex without the test clipTextEnd < call.time
MatchIndexUngated(d, command) ==
  LET m == {i \in DOMAIN d.commandCalls : d.commandCalls[i].cmd = command}
  IN IF m = {} THEN 0 ELSE CHOOSE i \in m : \A j \in m : i <= j

\* The entries a scan of isCommandCalled(command) looks at are those before
\* and including the first eligible entry named `command` (0: no match).
MatchIndex(d, command) ==
  LET m == {i \in DOMAIN d.commandCalls :
              /\ ~(d.clipTextEnd < d.commandCalls[i].time)
              /\ d.commandCalls[i].cmd = command}
  IN IF m = {} THEN 0 ELSE CHOOSE i \in m : \A j \in m : i <= j

\* The entries for which the scan sets pauseScrolling and calls setTimeout.
WaitsHit(d, command) ==
  LET m == MatchIndex(d, command)
      last == IF m = 0 THEN Len(d.commandCalls) ELSE m
      IsHit(i) ==
        /\ ~(d.clipTextEnd < d.commandCalls[i].time)
        /\ d.commandCalls[i].cmd = WAIT
        /\ d.clipTextEnd # Len(d.dialogueText)
  IN SelectSeq([i \in 1..last |-> i], IsHit)

\* isCommandCalled: the fields after the call, what it returns, the array
\* indexes its new timers captured, the id of the entry it reported.
isCommandCalled(d, command) ==
  IF d.pauseScrolling \/ "commandCalls" \in d.undefined
  THEN [dt |-> d, ret |-> FALSE, scheduled |-> <<>>, id |-> ""]
  ELSE
    LET m == MatchIndex(d, command)
        w == WaitsHit(d, command)
    IN [dt |-> [d EXCEPT
                  !.pauseScrolling = @ \/ w # <<>>,
                  !.commandParameters =
                     IF m > 0 THEN d.commandCalls[m].params ELSE @,
                  !.commandCalls = IF m > 0 THEN Splice(@, m - 1) ELSE @],
        ret |-> m > 0,
        scheduled |-> [k \in DOMAIN w |-> [index |-> w[k] - 1, live |-> TRUE]],
        id |-> IF m > 0 THEN d.commandCalls[m].id ELSE ""]

\* timerCallback where a callback that captured an old array does nothing
timerCallbackLiveOnly(d, t) ==
  IF t.live
  THEN [d EXCEPT !.pauseScrolling = FALSE,
                 !.commandCalls = Splice(@, t.index)]
  ELSE d

\* timerCallback without pauseScrolling = false
timerCallbackKeepsPause(d, t) ==
  [d EXCEPT !.commandCalls = IF t.live THEN Splice(@, t.index) ELSE @]

\* The setTimeout callback of isCommandCalled. `live` says that the array the
\* callback captured is still this.commandCalls.
timerCallback(d, t) ==
  [d EXCEPT !.pauseScrolling = FALSE,
            !.commandCalls = IF t.live THEN Splice(@, t.index) ELSE @]

\* this.commandCalls was assigned a new array: pending callbacks keep the old.
\* The index such a callback captured no longer matters: it is kept as 0.
Stale(ts) == [i \in DOMAIN ts |-> [index |-> 0, live |-> FALSE]]

commandParametersCount(d) ==
  IF Len(d.commandParameters) > 1 THEN Len(d.commandParameters) - 1 ELSE 0

getCommandParameter(d, paramIndex) ==
  IF Len(d.commandParameters) >= paramIndex + 1
     /\ (paramIndex + 2) \in DOMAIN d.commandParameters
  THEN d.commandParameters[paramIndex + 2]
  ELSE <<>>

----
(* The option selector.                                                    *)

_normalizedOptionIndex(d, optionIndex) ==
  LET i == IF optionIndex >= Len(d.options) THEN Len(d.options) - 1
           ELSE optionIndex
  IN IF i < 0 THEN 0 ELSE i

\* _cycledOptionIndex that caps at the last option instead of wrapping
_cycledOptionIndexCapped(d, optionIndex) ==
  LET i == IF optionIndex >= Len(d.options) THEN Len(d.options) - 1
           ELSE optionIndex
  IN IF i < 0 THEN Len(d.options) - 1 ELSE i

_cycledOptionIndex(d, optionIndex) ==
  LET i == IF optionIndex >= Len(d.options) THEN 0 ELSE optionIndex
  IN IF i < 0 THEN Len(d.options) - 1 ELSE i

\* Reading .select of null / undefined throws; a Text or Command result has
\* no select.
SelectOf(d) ==
  CASE d.dialogueData.kind = "none" -> "TypeError"
    [] d.dialogueData.kind = "options" -> "function"
    [] OTHER -> "undefined"

selectNextOption(d) ==
  IF SelectOf(d) = "function"
  THEN [d EXCEPT !.selectedOption = _cycledOptionIndex(d, @ + 1),
                 !.selectedOptionUpdated = TRUE]
  ELSE d

selectPreviousOption(d) ==
  IF SelectOf(d) = "function"
  THEN [d EXCEPT !.selectedOption = _cycledOptionIndex(d, @ - 1),
                 !.selectedOptionUpdated = TRUE]
  ELSE d

selectOption(d, optionIndex) ==
  IF SelectOf(d) = "function"
  THEN [d EXCEPT !.selectedOption = _normalizedOptionIndex(d, @),
                 !.selectedOptionUpdated = TRUE]
  ELSE d

getSelectedOption(d) ==
  IF SelectOf(d) = "function" THEN d.selectedOption ELSE 0

\* hasSelectedOptionChanged that leaves the flag set
hasSelectedOptionChangedKeepsFlag(d) ==
  IF d.selectedOptionUpdated
  THEN [d EXCEPT !.selectedOption = IF @ = -1 THEN 0 ELSE @]
  ELSE d

hasSelectedOptionChanged(d) ==
  IF d.selectedOptionUpdated
  THEN [d EXCEPT !.selectedOptionUpdated = FALSE,
                 !.selectedOption = IF @ = -1 THEN 0 ELSE @]
  ELSE d

\* The public functions that throw a TypeError when called on the fields d:
\* those that read .select of a null / undefined dialogueData, .length of an
\* undefined options, .length of an undefined dialogueText.
Throwing(d) ==
  (IF SelectOf(d) = "TypeError"
   THEN {"confirmSelectOption", "selectNextOption", "selectPreviousOption",
         "selectOption", "getSelectedOption"}
   ELSE {})
  \cup (IF "options" \in d.undefined
        THEN {"getLineOption", "getLineOptionsText", "getLineOptionsCount"}
        ELSE {})
  \cup (IF "dialogueText" \in d.undefined
        THEN {"getClippedLineText", "getLineText"}
        ELSE {})

getLineOptionsCount(d) ==
  IF Len(d.options) > 0 THEN d.optionsCount ELSE 0

confirmSelectOption(d) ==
  IF SelectOf(d) = "function"
     /\ ~d.selectedOptionUpdated
     /\ d.selectedOption # -1
  THEN
    LET f0 == [Frame([d EXCEPT !.commandCalls = <<>>]) EXCEPT
                 !.newQueue = TRUE, !.selected = d.selectedOption]
    IN IF SelectThrows(d.dialogueData, d.selectedOption) THEN f0
       ELSE goToNextDialogueLine(
              Pull([f0 EXCEPT !.dt.dialogue.selected = d.selectedOption]))
  ELSE Frame(d)

----
(* The state codec. The helpers gdjs.evtTools.network._objectToVariable    *)
(* and variableStructureToJSON are not part of dialoguetools.js: a table   *)
(* is written as the set of its (key, value) children and read back.       *)

VarKeys == {"x", "y"}
VarValues == {"1", "a"}
Titles == {"Start", "YesB"}

Object(data) == [kind |-> "object", data |-> data]
Undefined == [kind |-> "undefined"]

Tables(keys, values) ==
  UNION {[ks -> values] : ks \in SUBSET keys}

Children(table) == {<<k, table.data[k]>> : k \in DOMAIN table.data}

TableOf(children) ==
  Object([k \in {c[1] : c \in children} |->
            (CHOOSE c \in children : c[1] = k)[2]])

\* A gdjs.Variable that was never written holds the number 0.
FreshVariable == [kind |-> "number"]

\* _objectToVariable(dialogueState, outputVariable)
ObjectToVariable(state) ==
  [kind |-> "structure",
   children |-> [n \in {m \in DOMAIN state : state[m].kind = "object"} |->
                   Children(state[n])]]

\* JSON.parse(variableStructureToJSON(inputVariable)): throws when the text is
\* no JSON, else yields the two properties loadState reads of the value.
ParseThrows(v) == v.kind = "unparsable"

ParseVariable(v) ==
  IF v.kind = "structure"
  THEN [n \in {"variables", "visited"} |->
          IF n \in DOMAIN v.children THEN TableOf(v.children[n])
          ELSE Undefined]
  ELSE [n \in {"variables", "visited"} |-> Undefined]

saveState(r) ==
  ObjectToVariable([variables |-> r.variables, visited |-> r.visited])

\* loadState that reads both tables from the variables property
loadStateVariablesTwice(r, inputVariable) ==
  IF ParseThrows(inputVariable) THEN r
  ELSE LET loadedState == ParseVariable(inputVariable)
       IN [r EXCEPT !.visited = loadedState.variables,
                    !.variables = loadedState.variables]

loadState(r, inputVariable) ==
  IF ParseThrows(inputVariable) THEN r
  ELSE LET loadedState == ParseVariable(inputVariable)
       IN [r EXCEPT !.visited = loadedState.visited,
                    !.variables = loadedState.variables]

setVariable(d, r, key, value) ==
  IF d.dialogueIsRunning /\ r.variables.kind = "object"
  THEN [r EXCEPT !.variables =
          Object([k \in DOMAIN @.data \cup {key} |->
                    IF k = key THEN value ELSE @.data[k]])]
  ELSE r

\* What the game itself may put in the variable handed to loadState.
HostPayloads ==
  { FreshVariable,
    [kind |-> "unparsable"],
    [kind |-> "structure", children |-> [n \in {"variables"} |-> {}]],
    [kind |-> "structure", children |-> [n \in {"visited"} |-> {<<"Start", TRUE>>}]] }

----
(* The state machine: one action per public function, one for a timer.     *)

NoRun == [start |-> -2, n |-> 0, prev |-> -2]

\* The longest option list of the script, plus one: a run of selectNextOption
\* calls is counted up to here.
RunCap ==
  LET counts == UNION {{IF YarnNodes[b][i].kind = "options"
                        THEN Len(YarnNodes[b][i].options) ELSE 0 :
                          i \in DOMAIN YarnNodes[b]} : b \in BranchNames}
                \cup {0}
  IN 1 + (CHOOSE c \in counts : \A e \in counts : e <= c)

Bool(b) == IF b THEN "true" ELSE "false"

\* The calls whose name, argument and result the history keeps; every other
\* call is kept as "other".
Recorded ==
  {"new", "startFrom", "stopRunningDialogue", "isRunning", "scrollClippedText",
   "isCommandCalled", "confirmSelectOption", "saveState", "loadState",
   "loadFromSceneVariable", "loadFromJsonFile"}

Call(op, arg, ret, f) ==
  IF op \in Recorded
  THEN [op |-> op, arg |-> arg, ret |-> ret, selected |-> f.selected,
        pulled |-> f.pulled, entered |-> f.entered]
  ELSE [op |-> "other", arg |-> "", ret |-> "void", selected |-> -2,
        pulled |-> 0, entered |-> ""]

\* The effect of a call on the session and on the history variables.
Step(op, arg, ret, f, run, trail) ==
  /\ dt' = f.dt
  /\ timers' = IF f.newQueue THEN Stale(timers) ELSE timers
  /\ call' = Call(op, arg, ret, f)
  /\ selRun' = run
  /\ optTrail' = IF f.presented THEN "fresh" ELSE trail
  /\ fired' = IF f.newQueue THEN <<>> ELSE fired
  /\ stopped' = IF op = "stopRunningDialogue" THEN TRUE
                ELSE IF f.pulled > 0
                        /\ op \in {"startFrom", "loadFromSceneVariable",
                                   "loadFromJsonFile"}
                     THEN FALSE
                ELSE stopped

EmptyRunner ==
  [yarnNodes |-> {}, variables |-> Object(<<>>), visited |-> Object(<<>>)]

Init ==
  /\ dt = InitDT
  /\ runner = EmptyRunner
  /\ timers = <<>>
  /\ stateVar = FreshVariable
  /\ call = Call("new", "", "void", Frame(InitDT))
  /\ selRun = NoRun
  /\ optTrail = ""
  /\ fired = <<>>
  /\ stopped = FALSE

\* loadFromSceneVariable: JSON.parse or runner.load throws on bad data, and
\* the catch skips startFrom.
LoadFromSceneVariable(data, startDialogueNode) ==
  LET r == IF data = "good" THEN [runner EXCEPT !.yarnNodes = BranchNames]
           ELSE runner
  IN /\ runner' = r
     /\ Step("loadFromSceneVariable", data, "void",
             IF data = "good" /\ startDialogueNode # ""
             THEN startFrom(dt, r, startDialogueNode) ELSE Frame(dt),
             NoRun, "")
     /\ UNCHANGED stateVar

\* The loadJson callback of loadFromJsonFile with a content: a throw of
\* runner.load is caught on its own, and startFrom follows it either way.
LoadFromJsonFile(data, startDialogueNode) ==
  LET r == IF data = "good" THEN [runner EXCEPT !.yarnNodes = BranchNames]
           ELSE runner
  IN /\ runner' = r
     /\ Step("loadFromJsonFile", data, "void",
             IF startDialogueNode # ""
             THEN startFrom(dt, r, startDialogueNode) ELSE Frame(dt),
             NoRun, "")
     /\ UNCHANGED stateVar

StartFrom(startDialogueNode) ==
  /\ Step("startFrom", startDialogueNode, "void",
          startFrom(dt, runner, startDialogueNode), NoRun, "")
  /\ UNCHANGED <<runner, stateVar>>

StopRunningDialogue ==
  /\ Step("stopRunningDialogue", "", "void", Frame(stopRunningDialogue(dt)),
          NoRun, "")
  /\ UNCHANGED <<runner, stateVar>>

IsRunning ==
  /\ Step("isRunning", "", Bool(isRunning(dt)),
          Frame([dt EXCEPT !.dialogueIsRunning = isRunning(dt)]), NoRun, "")
  /\ UNCHANGED <<runner, stateVar>>

ScrollClippedText ==
  /\ dt.clipTextEnd < MaxClip
  /\ Step("scrollClippedText", "", "void", Frame(scrollClippedText(dt)),
          NoRun, "")
  /\ UNCHANGED <<runner, stateVar>>

CompleteClippedTextScrolling ==
  /\ Step("completeClippedTextScrolling", "", "void",
          Frame(completeClippedTextScrolling(dt)), NoRun, "")
  /\ UNCHANGED <<runner, stateVar>>

\* getLineText: completes the scrolling, then reads this.dialogueText.length
GetLineText ==
  /\ Step("getLineText", "",
          IF "dialogueText" \in dt.undefined THEN "TypeError" ELSE "text",
          Frame(completeClippedTextScrolling(dt)), NoRun, "")
  /\ UNCHANGED <<runner, stateVar>>

GoToNextDialogueLine ==
  /\ Step("goToNextDialogueLine", "", "void",
          goToNextDialogueLine(Frame(dt)), NoRun, "")
  /\ UNCHANGED <<runner, stateVar>>

IsCommandCalled(command) ==
  LET r == isCommandCalled(dt, command)
  IN /\ Len(timers) + Len(r.scheduled) <= MaxTimers
     /\ dt' = r.dt
     /\ timers' = timers \o r.scheduled
     /\ call' = Call("isCommandCalled", command, Bool(r.ret), Frame(dt))
     /\ selRun' = NoRun
     /\ optTrail' = ""
     /\ fired' = IF r.ret THEN Append(fired, r.id) ELSE fired
     /\ UNCHANGED <<runner, stateVar, stopped>>

\* A pending setTimeout callback runs.
TimerFires(k) ==
  /\ dt' = timerCallback(dt, timers[k])
  /\ timers' = Splice(timers, k - 1)
  /\ call' = Call("timer", "", "void", Frame(dt))
  /\ selRun' = NoRun
  /\ optTrail' = ""
  /\ UNCHANGED <<runner, stateVar, fired, stopped>>

SelectNextOption ==
  /\ Step("selectNextOption", "",
          IF SelectOf(dt) = "TypeError" THEN "TypeError" ELSE "void",
          Frame(selectNextOption(dt)),
          IF SelectOf(dt) = "function"
          THEN [start |-> IF selRun.n = 0 THEN dt.selectedOption
                          ELSE selRun.start,
                n |-> IF selRun.n < RunCap THEN selRun.n + 1 ELSE RunCap,
                prev |-> dt.selectedOption]
          ELSE NoRun,
          IF SelectOf(dt) = "function" /\ optTrail = "fresh"
          THEN "fresh.next" ELSE "")
  /\ UNCHANGED <<runner, stateVar>>

SelectPreviousOption ==
  /\ Step("selectPreviousOption", "",
          IF SelectOf(dt) = "TypeError" THEN "TypeError" ELSE "void",
          Frame(selectPreviousOption(dt)), NoRun, "")
  /\ UNCHANGED <<runner, stateVar>>

SelectOption(optionIndex) ==
  /\ Step("selectOption", "",
          IF SelectOf(dt) = "TypeError" THEN "TypeError" ELSE "void",
          Frame(selectOption(dt, optionIndex)), NoRun, "")
  /\ UNCHANGED <<runner, stateVar>>

HasSelectedOptionChanged ==
  /\ Step("hasSelectedOptionChanged", "", Bool(dt.selectedOptionUpdated),
          Frame(hasSelectedOptionChanged(dt)), NoRun,
          IF optTrail = "fresh.next" THEN "fresh.next.read" ELSE "")
  /\ UNCHANGED <<runner, stateVar>>

ConfirmSelectOption ==
  /\ Step("confirmSelectOption", optTrail,
          IF SelectOf(dt) = "TypeError" THEN "TypeError" ELSE "void",
          confirmSelectOption(dt), NoRun, "")
  /\ UNCHANGED <<runner, stateVar>>

StartArgs == BranchNames \cup {UnknownBranch}
LoadData == {"good", "bad"}
LoadStartArgs == {"", "Start"}
OptionArgs == {-1, 0, 5}

Next ==
  \/ \E data \in LoadData, n \in LoadStartArgs : LoadFromSceneVariable(data, n)
  \/ \E data \in LoadData, n \in LoadStartArgs : LoadFromJsonFile(data, n)
  \/ \E n \in StartArgs : StartFrom(n)
  \/ StopRunningDialogue
  \/ IsRunning
  \/ ScrollClippedText
  \/ CompleteClippedTextScrolling
  \/ GetLineText
  \/ GoToNextDialogueLine
  \/ \E command \in CommandNames : IsCommandCalled(command)
  \/ \E k \in DOMAIN timers : TimerFires(k)
  \/ SelectNextOption
  \/ SelectPreviousOption
  \/ \E i \in OptionArgs : SelectOption(i)
  \/ HasSelectedOptionChanged
  \/ ConfirmSelectOption

Spec == Init /\ [][Next]_vars

\* The script is loaded and the caller only starts dialogues, ticks and polls
\* for commands, each frame again; timers fire on their own.
PollInit ==
  /\ dt = InitDT
  /\ runner = [EmptyRunner EXCEPT !.yarnNodes = BranchNames]
  /\ timers = <<>>
  /\ stateVar = FreshVariable
  /\ call = Call("new", "", "void", Frame(InitDT))
  /\ selRun = NoRun
  /\ optTrail = ""
  /\ fired = <<>>
  /\ stopped = FALSE

PollNext ==
  \/ \E n \in BranchNames : StartFrom(n)
  \/ ScrollClippedText
  \/ \E command \in CommandNames : IsCommandCalled(command)
  \/ \E k \in DOMAIN timers : TimerFires(k)

\* The last call was tick() or isCommandCalled(command).
TickOrPoll(command) ==
  \/ call.op = "scrollClippedText"
  \/ call.op = "isCommandCalled" /\ call.arg = command

\* A caller that alternates tick() and isCommandCalled(command) makes each of
\* the two calls again.
PollSpec ==
  /\ PollInit
  /\ [][PollNext]_vars
  /\ WF_vars(ScrollClippedText)
  /\ \A command \in CommandNames :
       WF_vars(TickOrPoll(command) /\ IsCommandCalled(command))

\* The caller ticks and asks isRunning() each frame, and may poll for
\* commands and start dialogues.
TimerNext ==
  \/ \E n \in BranchNames : StartFrom(n)
  \/ ScrollClippedText
  \/ IsRunning
  \/ \E command \in CommandNames : IsCommandCalled(command)
  \/ \E k \in DOMAIN timers : TimerFires(k)

\* tick() and isRunning() are called again and again, and the host runs
\* every setTimeout callback after its delay.
TimerSpec ==
  /\ PollInit
  /\ [][TimerNext]_vars
  /\ WF_vars(ScrollClippedText)
  /\ WF_vars(IsRunning)
  /\ WF_vars(\E k \in DOMAIN timers : TimerFires(k))

\* Node sequences of at most MaxNodes Text and Command nodes.
MaxNodes == 4

QueueNodes ==
  { TextResult(HI, "Q"),
    CommandResult(WAIT \o SPACE \o <<"1">>, "w"),
    CommandResult(FOO, "f") }

NodeSeqs == UNION {[1 .. n -> QueueNodes] : n \in 0 .. MaxNodes}

\* startFrom on a fresh object, for a branch that yields `nodes`.
QueueStart(nodes) ==
  LET d1 == [InitDT EXCEPT
               !.dialogue = [rest |-> nodes, links |-> <<>>, selected |-> -1],
               !.undefined = {}]
      f1 == Pull([Frame(d1) EXCEPT !.newQueue = TRUE])
  IN goToNextDialogueLine([f1 EXCEPT !.dt.dialogueIsRunning = TRUE])

\* A dialogue over any such node sequence has been started.
QueueInit ==
  /\ \E nodes \in NodeSeqs :
       /\ dt = QueueStart(nodes).dt
       /\ call = Call("startFrom", "", "void", QueueStart(nodes))
  /\ runner = [EmptyRunner EXCEPT !.yarnNodes = BranchNames]
  /\ timers = <<>>
  /\ stateVar = FreshVariable
  /\ selRun = NoRun
  /\ optTrail = ""
  /\ fired = <<>>
  /\ stopped = FALSE

QueueNext ==
  \/ GoToNextDialogueLine
  \/ ScrollClippedText
  \/ \E command \in CommandNames : IsCommandCalled(command)
  \/ \E k \in DOMAIN timers : TimerFires(k)

QueueSpec == QueueInit /\ [][QueueNext]_vars

----
(* The state codec on its own: the tables hold any content, the session    *)
(* is idle or running, and the calls are those that touch the tables.      *)

CodecStep(op, arg) ==
  /\ call' = Call(op, arg, "void", Frame(dt))
  /\ selRun' = NoRun
  /\ optTrail' = ""
  /\ UNCHANGED <<dt, timers, fired, stopped>>

\* saveState: the history keeps the tables as they were before the call.
SaveState ==
  /\ stateVar' = saveState(runner)
  /\ CodecStep("saveState",
               [variables |-> runner.variables, visited |-> runner.visited])
  /\ UNCHANGED runner

\* loadState: the history keeps whether it directly follows a saveState.
LoadState ==
  /\ runner' = loadState(runner, stateVar)
  /\ CodecStep("loadState", IF call.op = "saveState" THEN "saved" ELSE "")
  /\ UNCHANGED stateVar

SetVariable(key, value) ==
  /\ runner' = setVariable(dt, runner, key, value)
  /\ CodecStep("setVariable", "")
  /\ UNCHANGED stateVar

\* The game writes the variable itself.
HostWritesVariable(payload) ==
  /\ stateVar' = payload
  /\ CodecStep("hostWrites", "")
  /\ UNCHANGED runner

CodecInit ==
  /\ runner \in {[yarnNodes |-> BranchNames,
                  variables |-> Object(v), visited |-> Object(w)] :
                   v \in Tables(VarKeys, VarValues), w \in Tables(Titles, {TRUE})}
  /\ dt \in {InitDT, startFrom(InitDT, runner, "YesB").dt}
  /\ timers = <<>>
  /\ stateVar = FreshVariable
  /\ call = Call("new", "", "void", Frame(InitDT))
  /\ selRun = NoRun
  /\ optTrail = ""
  /\ fired = <<>>
  /\ stopped = FALSE

CodecNext ==
  \/ SaveState
  \/ LoadState
  \/ \E key \in VarKeys, value \in VarValues : SetVariable(key, value)
  \/ \E payload \in HostPayloads : HostWritesVariable(payload)

CodecSpec == CodecInit /\ [][CodecNext]_vars

----
(* The claims.                                                             *)

RECURSIVE DropCommands(_)
DropCommands(nodes) ==
  IF nodes # <<>> /\ Head(nodes).kind = "command"
  THEN DropCommands(Tail(nodes))
  ELSE nodes

\* Running the branch yields a Text or Options node after its leading commands.
YieldsLine(node) == DropCommands(YarnNodes[node]) # <<>>

FirstLineIsText(node) ==
  YieldsLine(node) /\ Head(DropCommands(YarnNodes[node])).kind = "text"

\* C1 (as claimed): for a known node, isRunning() called right after
\* startFrom(node) returns true exactly when the sequence of the node yields a
\* Text or Options node after its leading Command nodes.
C1_RunningIffLineYielded ==
  [][(/\ call.op = "startFrom"
      /\ hasDialogueBranch(runner, call.arg)
      /\ call'.op = "isRunning")
     => (call'.ret = "true" <=> YieldsLine(call.arg))]_vars

\* C2 (as claimed): in every reachable state 0 <= clipEnd <= len(fullText).
C2_ClipWithinLine ==
  dt.clipTextEnd >= 0 /\ dt.clipTextEnd <= Len(dt.dialogueText)

\* A step of tick(), completeLine(), fullLineText(), an isCommandCalled() poll
\* or a wait timer.
ScrollOrPollStep ==
  \/ ScrollClippedText
  \/ CompleteClippedTextScrolling
  \/ GetLineText
  \/ \E command \in CommandNames : IsCommandCalled(command)
  \/ \E k \in DOMAIN timers : TimerFires(k)

\* C3 (as claimed): while a Text line is displayed, no tick(), completeLine(),
\* fullLineText(), isCommandCalled() poll or timer firing decreases clipEnd.
C3_ClipNeverDecreases ==
  [][(/\ dt.dialogueIsRunning
      /\ dt.dialogueDataType = "text"
      /\ ScrollOrPollStep)
     => dt'.clipTextEnd >= dt.clipTextEnd]_vars

\* C4: a call isCommandCalled(name), name other than wait, that returns true
\* reports an entry of that name whose offset the clip cursor has reached,
\* removes exactly that entry from the queue, and that entry was not reported
\* before.
C4_CommandFiresOnceAtOffset ==
  [][(/\ call'.op = "isCommandCalled"
      /\ call'.ret = "true"
      /\ call'.arg # WAIT)
     => \E i \in DOMAIN dt.commandCalls :
          /\ dt.commandCalls[i].cmd = call'.arg
          /\ dt.commandCalls[i].time <= dt.clipTextEnd
          /\ dt'.commandCalls = Splice(dt.commandCalls, i - 1)
          /\ dt.commandCalls[i].id \notin Range(fired)
          /\ fired' = Append(fired, dt.commandCalls[i].id)]_vars

\* C4 witness: a poll for foo has just reported the entry queued at the end of
\* the two-character line, and the queue no longer holds it.
C4_Witness ==
  /\ call.op = "isCommandCalled"
  /\ call.ret = "true"
  /\ call.arg = FOO
  /\ dt.clipTextEnd >= 2
  /\ fired # <<>>
  /\ \A i \in DOMAIN dt.commandCalls : dt.commandCalls[i].cmd # FOO

\* One command named `command` is queued on the line at an offset within the
\* line, the session runs unpaused, and a poll can still schedule its timer.
OneQueued(command) ==
  /\ dt.dialogueIsRunning
  /\ ~dt.pauseScrolling
  /\ Len(timers) < MaxTimers
  /\ Len(dt.commandCalls) = 1
  /\ dt.commandCalls[1].cmd = command
  /\ dt.commandCalls[1].time <= Len(dt.dialogueText)

\* C5: with one command queued at an offset k <= N on a line, a caller that
\* keeps calling tick() and isCommandCalled(name) and nothing else eventually
\* gets true from isCommandCalled(name).
C5_CommandEventuallyFires ==
  \A command \in CommandNames :
    (OneQueued(command) /\ TickOrPoll(command))
      ~> \/ call.op = "isCommandCalled" /\ call.arg = command /\ call.ret = "true"
         \/ ~TickOrPoll(command)

\* C5 witness: the poll returned true after ticks took the cursor to the
\* offset of the only queued command.
C5_Witness ==
  /\ call.op = "isCommandCalled"
  /\ call.ret = "true"
  /\ dt.commandCalls = <<>>
  /\ Len(fired) = 1
  /\ dt.clipTextEnd = 2
  /\ dt.dialogueIsRunning

\* An Options line with at least one candidate is the displayed line.
OptionsShown(d) ==
  /\ d.dialogueIsRunning
  /\ d.dialogueDataType = "options"
  /\ d.dialogueData.kind = "options"
  /\ Len(d.options) >= 1

\* C6 (as claimed): on a displayed Options line, count calls of next() return
\* selectedIndex to the value before the first, whatever that value was, and
\* previous() after a next() restores the value before the next().
C6_CyclesFromAnyIndex ==
  [][/\ (OptionsShown(dt') /\ selRun'.n = Len(dt'.options))
          => dt'.selectedOption = selRun'.start
     /\ (OptionsShown(dt) /\ selRun.n >= 1 /\ SelectPreviousOption)
          => dt'.selectedOption = selRun.prev]_vars

\* C6 (amended): the same, for every starting selectedIndex in 0..count-1.
C6_CyclesFromSelectedIndex ==
  [][/\ (OptionsShown(dt') /\ selRun'.n = Len(dt'.options)
           /\ selRun'.start >= 0)
          => dt'.selectedOption = selRun'.start
     /\ (OptionsShown(dt) /\ selRun.n >= 1 /\ selRun.prev >= 0
           /\ SelectPreviousOption)
          => dt'.selectedOption = selRun.prev]_vars

\* C6 witness: three next() calls on the three-option line, started at index 1.
C6_Witness ==
  /\ OptionsShown(dt)
  /\ Len(dt.options) = 3
  /\ selRun.n = 3
  /\ selRun.start = 1
  /\ dt.selectedOption = 1

C8_TextLineAfterStart ==
  (/\ call.op = "startFrom"
   /\ hasDialogueBranch(runner, call.arg)
   /\ FirstLineIsText(call.arg))
  => isDialogueLineType(dt, "text")

\* C9 (as claimed): when an Options line has just become the current line,
\* selectNextOption() directly followed by confirmSelectOption() calls select
\* with index 0 and pulls the first node of the branch of the first candidate.
C9_NextThenConfirm ==
  [][(optTrail = "fresh.next" /\ call'.op = "confirmSelectOption")
     => /\ call'.selected = 0
        /\ call'.pulled >= 1
        /\ call'.entered = dt.dialogueData.links[1]]_vars

\* C9 (amended): the same with a hasSelectedOptionChanged() read between the
\* selectNextOption() and the confirmSelectOption().
C9_NextReadThenConfirm ==
  [][(optTrail = "fresh.next.read" /\ call'.op = "confirmSelectOption")
     => /\ call'.selected = 0
        /\ call'.pulled >= 1
        /\ call'.entered = dt.dialogueData.links[1]]_vars

\* C9 witness: the confirm after next and read took the branch of "Yes".
C9_Witness ==
  /\ call.op = "confirmSelectOption"
  /\ call.arg = "fresh.next.read"
  /\ call.selected = 0
  /\ call.entered = "YesB"
  /\ dt.dialogueBranchTitle = "YesB"

\* C10: from a stop() until the next startFrom, isRunning() returns false and
\* getClippedLineText() returns the empty string.
C10_StoppedStaysStopped ==
  stopped => /\ ~isRunning(dt)
             /\ ~dt.dialogueIsRunning
             /\ getClippedLineText(dt) = <<>>

\* C10 witness: stopped during a wait pause, with the timer still pending, and
\* polled since.
C10_Witness ==
  /\ stopped
  /\ dt.pauseScrolling
  /\ timers # <<>>
  /\ call.op = "isCommandCalled"

\* C11: startFrom(nodeId) with a nodeId that names no branch of the runner
\* changes no field of the session, cancels no timer and leaves the runner.
C11_UnknownStartIsNoOp ==
  [][(\E n \in StartArgs : ~hasDialogueBranch(runner, n) /\ StartFrom(n))
     => /\ dt' = dt
        /\ timers' = timers
        /\ runner' = runner]_vars

\* C11 witness: startFrom of the unknown name during a running session with a
\* command queued, a timer pending and the scrolling paused.
C11_Witness ==
  /\ call.op = "startFrom"
  /\ call.arg = UnknownBranch
  /\ runner.yarnNodes = BranchNames
  /\ dt.dialogueIsRunning
  /\ dt.pauseScrolling
  /\ dt.commandCalls # <<>>
  /\ dt.clipTextEnd > 0
  /\ timers # <<>>

\* C12 (as claimed): in every reachable state every public function returns
\* normally.
C12_NoOperationThrows == Throwing(dt) = {}

\* confirmSelectOption passes its guard and OptionsResult.select throws.
SelectCallbackThrows ==
  /\ SelectOf(dt) = "function"
  /\ ~dt.selectedOptionUpdated
  /\ dt.selectedOption # -1
  /\ SelectThrows(dt.dialogueData, dt.selectedOption)

\* C13 (as claimed): a confirm() whose selection callback throws changes no
\* field of the session: running, current node, sequence cursor, command
\* queue, line text and clipEnd are as before the call.
C13_ThrowingSelectChangesNothing ==
  [][(SelectCallbackThrows /\ ConfirmSelectOption) => dt' = dt]_vars

\* The variable holds a PersistedState: a structure with both tables.
WellFormed(v) ==
  /\ v.kind = "structure"
  /\ {"variables", "visited"} \subseteq DOMAIN v.children

\* C14 (as claimed): loadState of a payload that is no well-formed
\* PersistedState leaves the variable table and the visited table untouched.
C14_MalformedLoadKeepsTables ==
  [][(~WellFormed(stateVar) /\ LoadState)
     => /\ runner'.variables = runner.variables
        /\ runner'.visited = runner.visited]_vars

\* C15 (as claimed): a load of malformed script data, by either load
\* function and whatever start node it names, starts no session: it leaves
\* the fields of the session as they were.
C15_FailedLoadStartsNothing ==
  [][(/\ call'.op \in {"loadFromSceneVariable", "loadFromJsonFile"}
      /\ call'.arg = "bad"
      /\ call' # call)
     => dt' = dt]_vars

\* C16 (as claimed): isCommandCalled("wait") returns false in every
\* reachable state.
C16_WaitIsNeverReported ==
  ~(call.op = "isCommandCalled" /\ call.arg = WAIT /\ call.ret = "true")

\* C17 (as claimed): hasClippedScrollingCompleted() is true exactly when a
\* non-empty line is loaded and clipEnd >= len(fullText).
C17_CompletedIffScrolledToEnd ==
  hasClippedScrollingCompleted(dt)
    <=> (dt.dialogueText # <<>> /\ dt.clipTextEnd >= Len(dt.dialogueText))

\* The indexes getCommandParameter is asked for.
ParamIndexes == -2 .. 3

\* C18 (as claimed): once isCommandCalled has matched a command with the
\* parameters p0..p(n-1), commandParametersCount() is n, getCommandParameter(i)
\* is p_i for 0 <= i < n and the empty string for every other i.
C18_ParametersOfMatchedCommand ==
  dt.commandParameters # <<>>
    => LET n == Len(dt.commandParameters) - 1
       IN /\ commandParametersCount(dt) = n
          /\ \A i \in ParamIndexes :
               getCommandParameter(dt, i) =
                 IF 0 <= i /\ i < n THEN dt.commandParameters[i + 2] ELSE <<>>

\* An Options node is the current, presented line, an option is selected and
\* the selection was read since it last changed.
ConfirmAllowed(d) ==
  /\ SelectOf(d) = "function"
  /\ d.dialogueDataType = "options"
  /\ d.selectedOption # -1
  /\ ~d.selectedOptionUpdated

\* C19 (as claimed): in every state but those, confirm() calls no selection
\* callback, pulls no node and changes no field of the session.
C19_ConfirmOnlyOnPresentedOptions ==
  [][(~ConfirmAllowed(dt) /\ ConfirmSelectOption)
     => /\ dt' = dt
        /\ call'.selected = -2
        /\ call'.pulled = 0]_vars

\* C20 (as claimed): getSelectedOption() never returns -1.
C20_SelectedOptionIsNormalized == getSelectedOption(dt) # -1

\* The line types isDialogueLineType is asked for.
LineTypes == {"text", "options", "command"}

\* C22 (as claimed): isDialogueLineType(t) is true only when the session is
\* running and t is the current line type, so for at most one t and for none
\* when the session is not running.
C22_LineTypeOnlyOfRunningLine ==
  \A t \in LineTypes :
    isDialogueLineType(dt, t) => (dt.dialogueIsRunning /\ dt.dialogueDataType = t)

RECURSIVE Ticks(_, _)
\* scrollClippedText called j times
Ticks(d, j) == IF j = 0 THEN d ELSE Ticks(scrollClippedText(d), j - 1)

\* The tick() calls made between a completeLine() and the next poll.
MaxTicksBetween == 2

\* C23 (as claimed): in every reachable state, once completeLine() (which
\* getLineText() calls first) has set clipEnd to len(fullText), a poll of
\* isCommandCalled made after any number of tick() calls sets no pause flag
\* and schedules no timer.
C23_CompletedLineSkipsWaits ==
  LET done == completeClippedTextScrolling(dt)
  IN (dt.dialogueText # <<>> /\ done.clipTextEnd = Len(dt.dialogueText)
        /\ ~done.pauseScrolling)
     => \A j \in 0 .. MaxTicksBetween, command \in CommandNames :
          LET r == isCommandCalled(Ticks(done, j), command)
          IN ~r.dt.pauseScrolling /\ r.scheduled = <<>>

\* A step of a public function other than stop(), startFrom() and the loads.
OtherPublicStep ==
  \/ IsRunning
  \/ ScrollClippedText
  \/ CompleteClippedTextScrolling
  \/ GetLineText
  \/ GoToNextDialogueLine
  \/ \E command \in CommandNames : IsCommandCalled(command)
  \/ SelectNextOption
  \/ SelectPreviousOption
  \/ \E i \in OptionArgs : SelectOption(i)
  \/ HasSelectedOptionChanged
  \/ ConfirmSelectOption

\* C30 (as claimed): while the pause flag is set no such step changes clipEnd,
\* the line text, the command queue, the current node or the position of the
\* node sequence.
C30_PauseFreezesPresentation ==
  [][(dt.pauseScrolling /\ OtherPublicStep)
     => /\ dt'.clipTextEnd = dt.clipTextEnd
        /\ dt'.dialogueText = dt.dialogueText
        /\ dt'.commandCalls = dt.commandCalls
        /\ dt'.dialogueData = dt.dialogueData
        /\ dt'.dialogue = dt.dialogue]_vars

\* The nodes the generator gen yields from now on.
Stream(gen) ==
  IF gen.links # <<>> /\ gen.selected # -1
  THEN YarnNodes[gen.links[gen.selected + 1]] \o gen.rest
  ELSE gen.rest

IsCommandNode(node) == node.kind = "command"

\* The ids of the Command nodes among the first k nodes of a stream.
CommandIds(stream, k) ==
  LET n == IF k > Len(stream) THEN Len(stream) ELSE k
      c == SelectSeq(SubSeq(stream, 1, n), IsCommandNode)
  IN [i \in DOMAIN c |-> c[i].id]

IsSuffix(a, b) ==
  Len(a) <= Len(b) /\ SubSeq(b, Len(b) - Len(a) + 1, Len(b)) = a

\* The call that returned the frame f, having pulled f.pulled nodes of stream,
\* left no command as line type and queued every Command node it pulled.
Resolved(f, stream) ==
  (f.dt.dialogueIsRunning /\ ~f.dt.pauseScrolling)
    => LET q == f.dt.commandCalls
           ids == CommandIds(stream, f.pulled)
       IN /\ f.dt.dialogueDataType \in {"text", "options", "unknown"}
          /\ IsSuffix(ids, [i \in DOMAIN q |-> q[i].id])
          /\ \A k \in DOMAIN ids :
               Cardinality({i \in DOMAIN q : q[i].id = ids[k]}) = 1

\* C28: a startFrom that has returned, and a goToNextDialogueLine or
\* confirmSelectOption called in any reachable state, when it returns on a
\* running, unpaused session leaves the line type text, options or unknown,
\* and the Command nodes it pulled are the last entries of the command queue,
\* each once, in sequence order.
C28_CommandsAutoResolve ==
  /\ Resolved(goToNextDialogueLine(Frame(dt)), Stream(dt.dialogue))
  /\ LET f == confirmSelectOption(dt)
     IN Resolved(f, IF f.pulled = 0 THEN <<>>
                    ELSE Stream([dt.dialogue EXCEPT
                                   !.selected = dt.selectedOption]))
  /\ call.op = "startFrom"
       => Resolved([dt |-> dt, pulled |-> call.pulled],
                   IF call.pulled = 0 THEN <<>> ELSE YarnNodes[call.arg])

\* C28 witness: startFrom has resolved the three commands in a row of Waits.
C28_Witness ==
  /\ call.op = "startFrom"
  /\ call.arg = "Waits"
  /\ call.pulled = 6
  /\ dt.dialogueDataType = "text"
  /\ [i \in DOMAIN dt.commandCalls |-> dt.commandCalls[i].id]
       = <<"c5", "c6", "c7">>

IsTextNode(node) == node.kind = "text"

\* The texts of the Text nodes among the first k nodes of a stream, joined.
RECURSIVE Texts(_, _)
Texts(stream, k) ==
  IF k <= 0 \/ stream = <<>> THEN <<>>
  ELSE (IF IsTextNode(Head(stream)) THEN Head(stream).text ELSE <<>>)
         \o Texts(Tail(stream), k - 1)

\* C27: in every reachable state, a confirmSelectOption that loads Text nodes
\* of the selected branch leaves exactly their text in the line buffer and
\* the clip position 0, with or without Command nodes before them.
C27_TextAfterOptionsIsNewLine ==
  LET f == confirmSelectOption(dt)
      stream == IF f.pulled = 0 THEN <<>>
                ELSE Stream([dt.dialogue EXCEPT !.selected = dt.selectedOption])
      loaded == Texts(stream, f.pulled - 1)
  IN loaded # <<>>
       => (f.dt.clipTextEnd = 0 /\ f.dt.dialogueText = loaded)

\* A line is displayed and the node sequence has no node left.
Exhausted(d) ==
  /\ d.dialogueIsRunning
  /\ d.dialogueData.kind = "none"
  /\ d.dialogueText # <<>>

\* The caller made a call other than tick() and isRunning().
OtherCall == call.op \in {"startFrom", "isCommandCalled"}

\* C21: once a line is displayed with no node left, a caller that only
\* ticks and asks isRunning(), with timers firing, is eventually answered
\* false; and dialogueIsRunning turns true again only in a startFrom that
\* pulled a node.
C21_SessionEndsByItself ==
  /\ Exhausted(dt)
       ~> \/ call.op = "isRunning" /\ call.ret = "false"
          \/ OtherCall
  /\ [][(~dt.dialogueIsRunning /\ dt'.dialogueIsRunning)
          => (call'.op = "startFrom" /\ call'.pulled > 0)]_vars

\* C21 witness: isRunning() has answered false on a fully scrolled line with
\* no node left.
C21_Witness ==
  /\ call.op = "isRunning"
  /\ call.ret = "false"
  /\ ~dt.dialogueIsRunning
  /\ dt.dialogueData.kind = "none"
  /\ dt.dialogueText # <<>>
  /\ dt.clipTextEnd >= Len(dt.dialogueText)

\* C24: a firing timer leaves the command queue as it is or removes one
\* wait entry from it, never an entry of another command.
C24_TimerRemovesOnlyItsWait ==
  [][\A k \in DOMAIN timers :
       TimerFires(k)
         => \/ dt'.commandCalls = dt.commandCalls
            \/ \E i \in DOMAIN dt.commandCalls :
                 /\ dt.commandCalls[i].cmd = WAIT
                 /\ dt'.commandCalls = Splice(dt.commandCalls, i - 1)]_vars

\* C26: stopRunningDialogue and startFrom leave every pending timer pending,
\* and a firing timer, also one scheduled on an earlier queue, leaves
\* pauseScrolling false.
C26_StaleTimerStillFires ==
  [][/\ call'.op \in {"stopRunningDialogue", "startFrom"}
          => Len(timers') = Len(timers)
     /\ (\E k \in DOMAIN timers : TimerFires(k)) => ~dt'.pauseScrolling]_vars

\* C26 witness: a timer of an earlier queue is still pending while the
\* session started after it is in its own wait pause.
C26_Witness ==
  /\ dt.dialogueIsRunning
  /\ dt.pauseScrolling
  /\ ~stopped
  /\ \E k \in DOMAIN timers : ~timers[k].live
  /\ \E k \in DOMAIN timers : timers[k].live

\* C29: while pauseScrolling is set a timer is pending, the pause ends, and
\* with the pause ended tick() advances clipTextEnd on a displayed line.
C29_WaitPauseEnds ==
  /\ [](dt.pauseScrolling => timers # <<>>)
  /\ dt.pauseScrolling ~> ~dt.pauseScrolling
  /\ []((~dt.pauseScrolling /\ dt.dialogueIsRunning /\ dt.dialogueText # <<>>)
          => scrollClippedText(dt).clipTextEnd = dt.clipTextEnd + 1)

\* C29 witness: a timer has fired and ended the pause of a running session
\* whose line is not yet scrolled to its end.
C29_Witness ==
  /\ call.op = "other"
  /\ ~dt.pauseScrolling
  /\ dt.dialogueIsRunning
  /\ dt.clipTextEnd < Len(dt.dialogueText)
  /\ timers = <<>>

\* The wait entries of the command queue have pairwise different offsets.
WaitOffsetsDiffer(d) ==
  \A i, j \in DOMAIN d.commandCalls :
    (i # j /\ d.commandCalls[i].cmd = WAIT /\ d.commandCalls[j].cmd = WAIT)
      => d.commandCalls[i].time # d.commandCalls[j].time

\* C25: for every sequence of Text and Command nodes, no two wait entries of
\* the command queue have the same offset, and one isCommandCalled scan
\* schedules at most one timer.
C25_WaitOffsetsAreDistinct ==
  /\ WaitOffsetsDiffer(dt)
  /\ \A command \in CommandNames :
       Len(isCommandCalled(dt, command).scheduled) <= 1

====
